---- MODULE Spec2Model ----
(***************************************************************************)
(* BLE central-role client: the GATT session of the two example programs   *)
(* of the repository, the Nordic UART client (src/unnamed/part_000) and    *)
(* the blinky client (src/central.js).                                     *)
(*                                                                         *)
(* One step of the model is one run-to-completion of a handler of the      *)
(* program: the program's start, an adapter event handler, the callback of *)
(* one adapter request, or the 'readable' handlers of stdin.  The adapter  *)
(* (pc-ble-driver-js) is the environment: it answers each pending request  *)
(* once, in any order, with an error or a result, and emits events.        *)
(***************************************************************************)
EXTENDS Integers, Sequences, FiniteSets, TLC

\* ----------------------------------------------------------------- bounds
MaxEvents == 5  \* adapter events and stdin chunks handled in one run
MaxAttrs == 2   \* attributes in one discovery response

\* -------------------------------------------------------- program constants
Variants == {"UART", "Blinky"}

BLE_DEVICE_NAME(v) == IF v = "UART" THEN "Nordic_UART" ELSE "Nordic_Blinky"

BLE_UUID_SERVICE(v) ==
    IF v = "UART" THEN "6E400001B5A3F393E0A9E50E24DCCA9E"
                  ELSE "000015231212EFDE1523785FEABCD123"

\* the notify-source characteristic: NUS TX, resp. the blinky button
LBS_UUID_NOTIFY_CHAR(v) ==
    IF v = "UART" THEN "6E400003B5A3F393E0A9E50E24DCCA9E"
                  ELSE "000015241212EFDE1523785FEABCD123"

\* the write-target characteristic: NUS RX, resp. the blinky LED
LBS_UUID_WRITE_CHAR(v) ==
    IF v = "UART" THEN "6E400002B5A3F393E0A9E50E24DCCA9E"
                  ELSE "000015251212EFDE1523785FEABCD123"

BLE_UUID_CCCD == "2902"

\* UUIDs a peer may also expose (GAP service, user description descriptor)
OtherServiceUUID == "1800"
OtherDescriptorUUID == "2901"

scanParameters == [active |-> TRUE, interval |-> 100, window |-> 50, timeout |-> 0]

\* Connection intervals are in tenths of a millisecond (7.5 ms is 75).
connectionsPararms(v) ==
    IF v = "UART"
    THEN [min_conn_interval |-> 75, minConnectionInterval |-> 75,
          max_conn_interval |-> 3000, maxConnectionInterval |-> 3000,
          slave_latency |-> 0, slaveLatency |-> 0,
          conn_sup_timeout |-> 40000, connectionSupervisionTimeout |-> 40000]
    ELSE [min_conn_interval |-> 75, max_conn_interval |-> 3000,
          slave_latency |-> 0, conn_sup_timeout |-> 40000]

connectOptions(v) ==
    [scanParams |-> [active |-> FALSE, interval |-> 100, window |-> 50, timeout |-> 0],
     connParams |-> connectionsPararms(v)]

\* The connection parameters a peer may ask for (interval in tenths of ms).
PeerParams == {[min_conn_interval |-> 150, max_conn_interval |-> 300,
                slave_latency |-> 0, conn_sup_timeout |-> 40000]}

\* process.exit(n): the exit status is n modulo 256
ExitStatus(n) == n % 256

\* ------------------------------------------------------------------ state
VARIABLES
    variant,               \* which of the two programs runs
    proc,                  \* "init", "running" or "exited"
    exitCode,              \* the exit status once exited, -1 before
    reqs,                  \* every adapter request issued, by request id
    pending,               \* ids of the requests whose callback has not run
    answers,               \* what the adapter passed to the callbacks that ran
    pipes,                 \* the discovery pipelines started, in order
    listeners,             \* stdin 'readable' listeners, in registration order
    notificationsEnabled,  \* the module-level array of part_000
    scanning,              \* adapter: the scan procedure is running
    connecting,            \* adapter: a connect request was accepted
    link,                  \* adapter: the current connection, 0 when none
    nconn,                 \* adapter: connections established so far
    hist                   \* counters of the events and intents handled

vars == <<variant, proc, exitCode, reqs, pending, answers, pipes, listeners,
          notificationsEnabled, scanning, connecting, link, nconn, hist>>

envVars == <<scanning, connecting, link, nconn>>

\* --------------------------------------------------------------- attributes
\* A discovered attribute: its UUID and its instance id, which is scoped to the
\* connection and tells the attributes of one UUID apart by their order (occ).
NoAttr == [uuid |-> "", conn |-> 0, kind |-> "none", occ |-> 0]

Attr(uuid, conn, kind, occ) == [uuid |-> uuid, conn |-> conn, kind |-> kind, occ |-> occ]

\* device.instanceId of the device of connection c
DeviceAttr(c) == Attr("", c, "device", 0)

\* The sequences over S of length at most n.
SeqsUpTo(S, n) == UNION {[1..k -> S] : k \in 0..n}

\* What the adapter may pass to the callback of a discovery request:
\* an error, or the list of the attributes' UUIDs.
Responses(U) ==
    {[err |-> TRUE, uuids |-> <<>>]} \cup
    {[err |-> FALSE, uuids |-> s] : s \in SeqsUpTo(U, MaxAttrs)}

ServiceUUIDs(v) == {BLE_UUID_SERVICE(v), OtherServiceUUID}
CharUUIDs(v) == {LBS_UUID_NOTIFY_CHAR(v), LBS_UUID_WRITE_CHAR(v)}
DescriptorUUIDs == {BLE_UUID_CCCD, OtherDescriptorUUID}

\* FindFirst, resolving with the first entry when no UUID matches
FindFirst_Fallback(uuids, target) ==
    IF \E i \in 1..Len(uuids) : uuids[i] = target
    THEN CHOOSE i \in 1..Len(uuids) :
            /\ uuids[i] = target
            /\ \A j \in 1..(i - 1) : uuids[j] # target
    ELSE IF Len(uuids) > 0 THEN 1 ELSE 0

\* for (const x in xs) { if (xs[x].uuid === target) { resolve(xs[x]); return; } }
\* the index of the first match, 0 when the loop ends without one
FindFirst(uuids, target) ==
    IF \E i \in 1..Len(uuids) : uuids[i] = target
    THEN CHOOSE i \in 1..Len(uuids) :
            /\ uuids[i] = target
            /\ \A j \in 1..(i - 1) : uuids[j] # target
    ELSE 0

\* xs[i] is the occ-th attribute of its UUID in the response
Occurrence(uuids, i) == Cardinality({j \in 1..i : uuids[j] = uuids[i]})

\* the attribute the loop resolves with: the entry at the index found
Found(uuids, target, conn, kind) ==
    LET i == FindFirst(uuids, target)
    IN  Attr(uuids[i], conn, kind, Occurrence(uuids, i))

\* ----------------------------------------------------------------- requests
\* A request is identified by its operation, the place that issued it and
\* either the pipeline it belongs to or its number among the requests of that
\* operation and place.
Issued(op, origin) == {i \in DOMAIN reqs : i[1] = op /\ i[2] = origin}

Req(op, origin, pid, attr, value, ack, params) ==
    [id |-> <<op, origin, IF pid # 0 THEN pid ELSE Cardinality(Issued(op, origin)) + 1>>,
     op |-> op, origin |-> origin, pid |-> pid,
     attr |-> attr, value |-> value, ack |-> ack, params |-> params,
     stale |-> (attr.conn # 0 /\ attr.conn # link)]

\* the request is handed to the adapter, its callback is pending
Issue(r) == reqs' = (r.id :> r) @@ reqs

\* the ids of the requests issued in this step
NewIds == DOMAIN reqs' \ DOMAIN reqs

\* The adapter calls the callback of request r: with an error or without, and
\* for a discovery request with a list that holds the target UUID or does not.
Answer(r, err, match) == answers' = (r :> [err |-> err, match |-> match]) @@ answers

Matches(resp, target) == \E i \in 1..Len(resp.uuids) : resp.uuids[i] = target

\* process.exit(n)
Exit(n) ==
    /\ proc' = "exited"
    /\ exitCode' = ExitStatus(n)

Running == proc = "running"

\* --------------------------------------------------------------------- Init
Init ==
    /\ variant \in Variants
    /\ proc = "init"
    /\ exitCode = -1
    /\ reqs = <<>>
    /\ pending = {}
    /\ answers = <<>>
    /\ pipes = <<>>
    /\ listeners = <<>>
    /\ notificationsEnabled = <<1, 0>>
    /\ scanning = FALSE
    /\ connecting = FALSE
    /\ link = 0
    /\ nconn = 0
    /\ hist = [events |-> 0, matched |-> 0, disconnected |-> 0, cpuRequests |-> 0,
               toggles |-> 0, sinceDiscovery |-> 0, quits |-> 0, opened |-> FALSE]

\* hist records what happened, for the properties: the events handled, the
\* deviceDiscovered events of the profile's name, the deviceDisconnected and
\* connParamUpdateRequest events, the toggle intents, the toggle intents since
\* the latest completed discovery, the quit intents, and whether the adapter
\* was opened.
\* one more adapter event or stdin chunk is handled
CountEvent(h) == [h EXCEPT !.events = @ + 1]

\* ------------------------------------------------------------ program start
\* main entry: addAdapterListener(adapter); openAdapter(adapter)
openAdapter == Req("open", "main", 0, NoAttr, <<>>, FALSE, <<>>)

Main ==
    /\ UNCHANGED answers
    /\ proc = "init"
    /\ proc' = "running"
    /\ Issue(openAdapter)
    /\ pending' = NewIds
    /\ UNCHANGED <<variant, exitCode, pipes, listeners, notificationsEnabled,
                   envVars, hist>>

\* adapter.startScan(scanParameters, callback)
startScan(origin) == Req("startScan", origin, 0, NoAttr, <<>>, FALSE, scanParameters)

\* OpenCallback, with the resolve() after the reject taking effect
OpenCallback_ResolveWins(r, err) ==
    /\ Running
    /\ r \in pending
    /\ reqs[r].op = "open"
    /\ Answer(r, err, FALSE)
    /\ Issue(startScan("main"))
    /\ pending' = (pending \ {r}) \cup NewIds
    /\ hist' = [hist EXCEPT !.opened = TRUE]
    /\ UNCHANGED <<proc, exitCode>>
    /\ UNCHANGED <<variant, pipes, listeners, notificationsEnabled, envVars>>

\* openAdapter's callback, then the .then / .catch of the main chain:
\* an error rejects (the resolve() after it changes nothing) and the catch exits
\* with -1; otherwise startScan is called.
OpenCallback(r, err) ==
    /\ Running
    /\ r \in pending
    /\ reqs[r].op = "open"
    /\ Answer(r, err, FALSE)
    /\ IF err
       THEN /\ Exit(-1)
            /\ pending' = pending \ {r}
            /\ UNCHANGED <<reqs, hist>>
       ELSE /\ Issue(startScan("main"))
            /\ pending' = (pending \ {r}) \cup NewIds
            /\ hist' = [hist EXCEPT !.opened = TRUE]
            /\ UNCHANGED <<proc, exitCode>>
    /\ UNCHANGED <<variant, pipes, listeners, notificationsEnabled, envVars>>

\* StartScanCallback, with the deviceDisconnected handler's catch starting
\* the scan once more
StartScanCallback_Retry(r, err) ==
    /\ Running
    /\ r \in pending
    /\ reqs[r].op = "startScan"
    /\ Answer(r, err, FALSE)
    /\ IF err /\ reqs[r].origin = "main"
       THEN Exit(-1)
       ELSE UNCHANGED <<proc, exitCode>>
    /\ IF err /\ reqs[r].origin = "deviceDisconnected"
       THEN /\ Issue(startScan("deviceDisconnected"))
            /\ pending' = (pending \ {r}) \cup NewIds
       ELSE /\ pending' = pending \ {r}
            /\ UNCHANGED reqs
    /\ scanning' = IF err THEN scanning ELSE TRUE
    /\ UNCHANGED <<variant, pipes, listeners, notificationsEnabled,
                   connecting, link, nconn, hist>>

\* startScan's callback: the main chain's catch exits with -1; the
\* deviceDisconnected handler's catch only logs.
StartScanCallback(r, err) ==
    /\ Running
    /\ r \in pending
    /\ reqs[r].op = "startScan"
    /\ Answer(r, err, FALSE)
    /\ pending' = pending \ {r}
    /\ IF err /\ reqs[r].origin = "main"
       THEN Exit(-1)
       ELSE UNCHANGED <<proc, exitCode>>
    /\ scanning' = IF err THEN scanning ELSE TRUE
    /\ UNCHANGED <<variant, reqs, pipes, listeners, notificationsEnabled,
                   connecting, link, nconn, hist>>

\* adapter.connect(connectToAddress, options, callback)
connect == Req("connect", "deviceDiscovered", 0, NoAttr, <<>>, FALSE, connectOptions(variant))

AdvertisedNames == {"Nordic_UART", "Nordic_Blinky", "Other"}

\* DeviceDiscovered, without the comparison of the advertised name
DeviceDiscovered_AnyName(name) ==
    /\ UNCHANGED answers
    /\ Running
    /\ scanning
    /\ hist.events < MaxEvents
    /\ hist' = [CountEvent(hist) EXCEPT
                   !.matched = IF name = BLE_DEVICE_NAME(variant) THEN @ + 1 ELSE @]
    /\ Issue(connect)
    /\ pending' = pending \cup NewIds
    /\ UNCHANGED <<variant, proc, exitCode, pipes, listeners,
                   notificationsEnabled, envVars>>

\* adapter.on('deviceDiscovered'): a device of the profile's name is connected to.
DeviceDiscovered(name) ==
    /\ UNCHANGED answers
    /\ Running
    /\ scanning
    /\ IF name = BLE_DEVICE_NAME(variant)
       THEN /\ hist.events < MaxEvents
            /\ hist' = [CountEvent(hist) EXCEPT !.matched = @ + 1]
            /\ Issue(connect)
            /\ pending' = pending \cup NewIds
       ELSE UNCHANGED <<reqs, pending, hist>>
    /\ UNCHANGED <<variant, proc, exitCode, pipes, listeners,
                   notificationsEnabled, envVars>>

\* connect's callback: an error rejects and the catch exits with 1.
ConnectCallback(r, err) ==
    /\ Running
    /\ r \in pending
    /\ reqs[r].op = "connect"
    /\ Answer(r, err, FALSE)
    /\ pending' = pending \ {r}
    /\ IF err
       THEN Exit(1)
       ELSE UNCHANGED <<proc, exitCode>>
    /\ connecting' = IF err THEN connecting ELSE TRUE
    /\ UNCHANGED <<variant, reqs, pipes, listeners, notificationsEnabled,
                   scanning, link, nconn, hist>>

\* ------------------------------------------------------- discovery pipeline
NewPipe(c) ==
    [conn |-> c, stage |-> "getServices", error |-> "",
     service |-> NoAttr, characteristic |-> NoAttr, descriptor |-> NoAttr]

getServices(pid, device) == Req("getServices", "discover", pid, device, <<>>, FALSE, <<>>)

\* the first step of the pipeline: discoverNusService / discoverBlinkyService
\* is called with the device; c is the connection of the device.
handleConnectedDevice(c) ==
    /\ pipes' = Append(pipes, NewPipe(c))
    /\ Issue(getServices(Len(pipes) + 1, DeviceAttr(c)))

\* Reject, with a catch that only logs the error
Reject_LogOnly(p, e) ==
    /\ pipes' = [pipes EXCEPT ![p].stage = "rejected", ![p].error = e]
    /\ UNCHANGED <<proc, exitCode>>

\* a discovery promise rejects: .catch logs the error and calls process.exit(1)
Reject(p, e) ==
    /\ pipes' = [pipes EXCEPT ![p].stage = "rejected", ![p].error = e]
    /\ Exit(1)

\* adapter.on('deviceConnected'): the blinky client starts the discovery
\* pipeline; the UART client only logs the connection.
DeviceConnected ==
    /\ UNCHANGED answers
    /\ Running
    /\ connecting
    /\ link = 0
    /\ hist.events < MaxEvents
    /\ hist' = CountEvent(hist)
    /\ link' = nconn + 1
    /\ nconn' = nconn + 1
    /\ connecting' = FALSE
    /\ scanning' = FALSE
    /\ IF variant = "Blinky"
       THEN /\ handleConnectedDevice(nconn + 1)
            /\ pending' = pending \cup NewIds
       ELSE UNCHANGED <<reqs, pending, pipes>>
    /\ UNCHANGED <<variant, proc, exitCode, listeners, notificationsEnabled>>

getCharacteristics(pid, service) ==
    Req("getCharacteristics", "discover", pid, service, <<>>, FALSE, <<>>)

\* getServices' callback (discoverNusService / discoverBlinkyService), then
\* the .then that calls the characteristic discovery with the service found.
GetServicesCallback(r, resp) ==
    /\ Running
    /\ r \in pending
    /\ reqs[r].op = "getServices"
    /\ Answer(r, resp.err, Matches(resp, BLE_UUID_SERVICE(variant)))
    /\ LET p == reqs[r].pid
           i == FindFirst(resp.uuids, BLE_UUID_SERVICE(variant))
           service == Found(resp.uuids, BLE_UUID_SERVICE(variant),
                            reqs[r].attr.conn, "service")
       IN  IF resp.err
           THEN /\ Reject(p, "ServiceError")
                /\ pending' = pending \ {r}
                /\ UNCHANGED reqs
           ELSE IF i = 0
           THEN /\ Reject(p, "ServiceNotFound")
                /\ pending' = pending \ {r}
                /\ UNCHANGED reqs
           ELSE /\ pipes' = [pipes EXCEPT ![p].stage = "getCharacteristics",
                                          ![p].service = service]
                /\ Issue(getCharacteristics(p, service))
                /\ pending' = (pending \ {r}) \cup NewIds
                /\ UNCHANGED <<proc, exitCode>>
    /\ UNCHANGED <<variant, listeners, notificationsEnabled, envVars, hist>>

getDescriptors(pid, characteristic) ==
    Req("getDescriptors", "discover", pid, characteristic, <<>>, FALSE, <<>>)

\* GetCharacteristicsCallback, going on to the descriptors when no
\* characteristic matched
GetCharacteristicsCallback_NotFoundContinues(r, resp) ==
    /\ Running
    /\ r \in pending
    /\ reqs[r].op = "getCharacteristics"
    /\ Answer(r, resp.err, Matches(resp, LBS_UUID_NOTIFY_CHAR(variant)))
    /\ LET p == reqs[r].pid
       IN  IF resp.err
           THEN /\ Reject(p, "CharacteristicError")
                /\ pending' = pending \ {r}
                /\ UNCHANGED reqs
           ELSE /\ pipes' = [pipes EXCEPT ![p].stage = "getDescriptors",
                                          ![p].characteristic = reqs[r].attr]
                /\ Issue(getDescriptors(p, reqs[r].attr))
                /\ pending' = (pending \ {r}) \cup NewIds
                /\ UNCHANGED <<proc, exitCode>>
    /\ UNCHANGED <<variant, listeners, notificationsEnabled, envVars, hist>>

\* getCharacteristics' callback (discoverTxCharacteristic /
\* discoverButtonCharacteristic), then the .then that discovers the CCCD.
GetCharacteristicsCallback(r, resp) ==
    /\ Running
    /\ r \in pending
    /\ reqs[r].op = "getCharacteristics"
    /\ Answer(r, resp.err, Matches(resp, LBS_UUID_NOTIFY_CHAR(variant)))
    /\ LET p == reqs[r].pid
           i == FindFirst(resp.uuids, LBS_UUID_NOTIFY_CHAR(variant))
           characteristic == Found(resp.uuids, LBS_UUID_NOTIFY_CHAR(variant),
                                   reqs[r].attr.conn, "characteristic")
       IN  IF resp.err
           THEN /\ Reject(p, "CharacteristicError")
                /\ pending' = pending \ {r}
                /\ UNCHANGED reqs
           ELSE IF i = 0
           THEN /\ Reject(p, "CharacteristicNotFound")
                /\ pending' = pending \ {r}
                /\ UNCHANGED reqs
           ELSE /\ pipes' = [pipes EXCEPT ![p].stage = "getDescriptors",
                                          ![p].characteristic = characteristic]
                /\ Issue(getDescriptors(p, characteristic))
                /\ pending' = (pending \ {r}) \cup NewIds
                /\ UNCHANGED <<proc, exitCode>>
    /\ UNCHANGED <<variant, listeners, notificationsEnabled, envVars, hist>>

\* writeDescriptorValue, asking for an acknowledged write
writeDescriptorValue_Ack(origin, pid, descriptor, value) ==
    Req("writeDescriptorValue", origin, pid, descriptor, value, TRUE, <<>>)

\* adapter.writeDescriptorValue(descriptor.instanceId, value, false, callback)
writeDescriptorValue(origin, pid, descriptor, value) ==
    Req("writeDescriptorValue", origin, pid, descriptor, value, FALSE, <<>>)

\* addUserInputListener(adapter, cccdDescriptor) of the blinky client: a new
\* 'readable' listener with an array of its own; no listener is ever removed.
addUserInputListener(cccdDescriptor) ==
    listeners' = Append(listeners, [cccdDescriptor |-> cccdDescriptor,
                                    notificationsEnabled |-> <<0, 0>>])

\* DescriptorDiscovered, with the UART client writing the disabled value
DescriptorDiscovered_WritesDisabled(p, descriptor) ==
    IF variant = "UART"
    THEN /\ pipes' = [pipes EXCEPT ![p].stage = "writeDescriptorValue",
                                   ![p].descriptor = descriptor]
         /\ Issue(writeDescriptorValue("handleConnectedDevice", p, descriptor, <<0, 0>>))
         /\ UNCHANGED listeners
    ELSE /\ pipes' = [pipes EXCEPT ![p].stage = "done", ![p].descriptor = descriptor]
         /\ addUserInputListener(descriptor)
         /\ UNCHANGED reqs

\* the last .then of the pipeline, given the CCCD: the UART client writes
\* notificationsEnabled to it, the blinky client registers the input listener.
DescriptorDiscovered(p, descriptor) ==
    IF variant = "UART"
    THEN /\ pipes' = [pipes EXCEPT ![p].stage = "writeDescriptorValue",
                                   ![p].descriptor = descriptor]
         /\ Issue(writeDescriptorValue("handleConnectedDevice", p, descriptor,
                                       notificationsEnabled))
         /\ UNCHANGED listeners
    ELSE /\ pipes' = [pipes EXCEPT ![p].stage = "done", ![p].descriptor = descriptor]
         /\ addUserInputListener(descriptor)
         /\ UNCHANGED reqs

\* getDescriptors' callback (discoverTxCharCCCD / discoverButtonCharCCCD)
GetDescriptorsCallback(r, resp) ==
    /\ Running
    /\ r \in pending
    /\ reqs[r].op = "getDescriptors"
    /\ Answer(r, resp.err, Matches(resp, BLE_UUID_CCCD))
    /\ LET p == reqs[r].pid
           i == FindFirst(resp.uuids, BLE_UUID_CCCD)
           descriptor == Found(resp.uuids, BLE_UUID_CCCD, reqs[r].attr.conn, "descriptor")
       IN  IF resp.err
           THEN /\ Reject(p, "DescriptorError")
                /\ pending' = pending \ {r}
                /\ UNCHANGED <<reqs, listeners, hist>>
           ELSE IF i = 0
           THEN /\ Reject(p, "DescriptorNotFound")
                /\ pending' = pending \ {r}
                /\ UNCHANGED <<reqs, listeners, hist>>
           ELSE /\ DescriptorDiscovered(p, descriptor)
                /\ pending' = (pending \ {r}) \cup NewIds
                /\ hist' = [hist EXCEPT !.sinceDiscovery = 0]
                /\ UNCHANGED <<proc, exitCode>>
    /\ UNCHANGED <<variant, notificationsEnabled, envVars>>

\* WriteCallback, with the error only logged
WriteCallback_LogOnly(r, err) ==
    /\ Running
    /\ r \in pending
    /\ reqs[r].op = "writeDescriptorValue"
    /\ Answer(r, err, FALSE)
    /\ pending' = pending \ {r}
    /\ UNCHANGED <<proc, exitCode>>
    /\ pipes' = IF reqs[r].pid # 0 /\ ~err
                THEN [pipes EXCEPT ![reqs[r].pid].stage = "done"]
                ELSE pipes
    /\ UNCHANGED <<variant, reqs, listeners, notificationsEnabled, envVars, hist>>

\* writeDescriptorValue's callback: an error exits with 1.
WriteCallback(r, err) ==
    /\ Running
    /\ r \in pending
    /\ reqs[r].op = "writeDescriptorValue"
    /\ Answer(r, err, FALSE)
    /\ pending' = pending \ {r}
    /\ IF err
       THEN Exit(1)
       ELSE UNCHANGED <<proc, exitCode>>
    /\ pipes' = IF reqs[r].pid # 0 /\ ~err
                THEN [pipes EXCEPT ![reqs[r].pid].stage = "done"]
                ELSE pipes
    /\ UNCHANGED <<variant, reqs, listeners, notificationsEnabled, envVars, hist>>

\* adapter.on('deviceDisconnected'): scanning is started again; nothing else.
DeviceDisconnected ==
    /\ UNCHANGED answers
    /\ Running
    /\ link # 0
    /\ hist.events < MaxEvents
    /\ link' = 0
    /\ Issue(startScan("deviceDisconnected"))
    /\ pending' = pending \cup NewIds
    /\ hist' = [CountEvent(hist) EXCEPT !.disconnected = @ + 1]
    /\ UNCHANGED <<variant, proc, exitCode, pipes, listeners, notificationsEnabled,
                   scanning, connecting, nconn>>

updateConnectionParameters(device, connectionParameters) ==
    Req("updateConnectionParameters", "connParamUpdateRequest", 0, device, <<>>,
        FALSE, connectionParameters)

\* adapter.on('connParamUpdateRequest'): the UART client asks the adapter to
\* update the parameters; the blinky client registers no listener for it.
ConnParamUpdateRequest(connectionParameters) ==
    /\ UNCHANGED answers
    /\ Running
    /\ link # 0
    /\ hist.events < MaxEvents
    /\ hist' = [CountEvent(hist) EXCEPT !.cpuRequests = @ + 1]
    /\ IF variant = "UART"
       THEN /\ Issue(updateConnectionParameters(DeviceAttr(link), connectionParameters))
            /\ pending' = pending \cup NewIds
       ELSE UNCHANGED <<reqs, pending>>
    /\ UNCHANGED <<variant, proc, exitCode, pipes, listeners, notificationsEnabled,
                   envVars>>

\* UpdateConnectionParametersCallback, without the return after the error log
UpdateConnectionParametersCallback_NoReturn(r, err) ==
    /\ Running
    /\ r \in pending
    /\ reqs[r].op = "updateConnectionParameters"
    /\ Answer(r, err, FALSE)
    /\ handleConnectedDevice(reqs[r].attr.conn)
    /\ pending' = (pending \ {r}) \cup NewIds
    /\ UNCHANGED <<variant, proc, exitCode, listeners, notificationsEnabled,
                   envVars, hist>>

\* updateConnectionParameters' callback: an error is logged; otherwise
\* handleConnectedDevice(adapter, device) runs for the device of the request.
UpdateConnectionParametersCallback(r, err) ==
    /\ Running
    /\ r \in pending
    /\ reqs[r].op = "updateConnectionParameters"
    /\ Answer(r, err, FALSE)
    /\ IF err
       THEN /\ pending' = pending \ {r}
            /\ UNCHANGED <<reqs, pipes>>
       ELSE /\ handleConnectedDevice(reqs[r].attr.conn)
            /\ pending' = (pending \ {r}) \cup NewIds
    /\ UNCHANGED <<variant, proc, exitCode, listeners, notificationsEnabled,
                   envVars, hist>>

\* ------------------------------------------------------------ operator input
Chunks == {"q", "Q", "l", "L", "x"}

\* process.stdin.read() in the i-th 'readable' listener: the first call takes
\* everything buffered, the later calls of the same event return null.
Null == "null"
StdinRead(i, chunk) == IF i = 1 THEN chunk ELSE Null

\* Toggle, with both branches enabling
Toggle_AlwaysEnable(ne) == <<1, ne[2]>>

\* if (notificationsEnabled[0]) notificationsEnabled[0] = 0; else ... = 1;
Toggle(ne) == IF ne[1] # 0 THEN <<0, ne[2]>> ELSE <<1, ne[2]>>

adapterClose == Req("close", "quit", 0, NoAttr, <<>>, FALSE, <<>>)

\* process.stdin.on('readable'): every registered listener runs; the one that
\* reads a chunk closes the adapter on q/Q, ignores l/L and toggles otherwise.
Readable(chunk) ==
    /\ UNCHANGED answers
    /\ Running
    /\ Len(listeners) > 0
    /\ hist.events < MaxEvents
    /\ LET i == CHOOSE k \in 1..Len(listeners) : StdinRead(k, chunk) # Null
           l == listeners[i]
       IN  IF chunk \in {"q", "Q"}
           THEN /\ Issue(adapterClose)
                /\ pending' = pending \cup NewIds
                /\ hist' = [CountEvent(hist) EXCEPT !.quits = @ + 1]
                /\ UNCHANGED listeners
           ELSE IF chunk \in {"l", "L"}
           THEN /\ hist' = CountEvent(hist)
                /\ UNCHANGED <<reqs, pending, listeners>>
           ELSE /\ listeners' = [listeners EXCEPT
                                    ![i].notificationsEnabled = Toggle(@)]
                /\ Issue(writeDescriptorValue("toggle", 0, l.cccdDescriptor,
                                              Toggle(l.notificationsEnabled)))
                /\ pending' = pending \cup NewIds
                /\ hist' = [CountEvent(hist) EXCEPT !.toggles = @ + 1,
                                                    !.sinceDiscovery = @ + 1]
    /\ UNCHANGED <<variant, proc, exitCode, pipes, notificationsEnabled, envVars>>

\* CloseCallback, with the exit only when the adapter was closed without error
CloseCallback_ExitOnSuccess(r, err) ==
    /\ Running
    /\ r \in pending
    /\ reqs[r].op = "close"
    /\ Answer(r, err, FALSE)
    /\ pending' = pending \ {r}
    /\ IF err
       THEN UNCHANGED <<proc, exitCode>>
       ELSE Exit(1)
    /\ UNCHANGED <<variant, reqs, pipes, listeners, notificationsEnabled,
                   envVars, hist>>

\* adapter.close's callback: an error is logged, then process.exit(1) either way.
CloseCallback(r, err) ==
    /\ Running
    /\ r \in pending
    /\ reqs[r].op = "close"
    /\ Answer(r, err, FALSE)
    /\ pending' = pending \ {r}
    /\ Exit(1)
    /\ UNCHANGED <<variant, reqs, pipes, listeners, notificationsEnabled,
                   envVars, hist>>

\* adapter.on('scanTimedOut'): process.exit(1)
ScanTimedOut ==
    /\ UNCHANGED answers
    /\ Running
    /\ scanning
    /\ Exit(1)
    /\ UNCHANGED <<variant, reqs, pending, pipes, listeners, notificationsEnabled,
                   envVars, hist>>

\* ------------------------------------------------------------ specification
Next ==
    \/ Main
    \/ \E r \in pending, err \in BOOLEAN : OpenCallback(r, err)
    \/ \E r \in pending, err \in BOOLEAN : StartScanCallback(r, err)
    \/ \E name \in AdvertisedNames : DeviceDiscovered(name)
    \/ \E r \in pending, err \in BOOLEAN : ConnectCallback(r, err)
    \/ DeviceConnected
    \/ \E r \in pending, resp \in Responses(ServiceUUIDs(variant)) :
          GetServicesCallback(r, resp)
    \/ \E r \in pending, resp \in Responses(CharUUIDs(variant)) :
          GetCharacteristicsCallback(r, resp)
    \/ \E r \in pending, resp \in Responses(DescriptorUUIDs) :
          GetDescriptorsCallback(r, resp)
    \/ \E r \in pending, err \in BOOLEAN : WriteCallback(r, err)
    \/ DeviceDisconnected
    \/ \E cp \in PeerParams : ConnParamUpdateRequest(cp)
    \/ \E r \in pending, err \in BOOLEAN : UpdateConnectionParametersCallback(r, err)
    \/ \E chunk \in Chunks : Readable(chunk)
    \/ \E r \in pending, err \in BOOLEAN : CloseCallback(r, err)
    \/ ScanTimedOut

Spec == Init /\ [][Next]_vars

\* ------------------------------------------- the blinky client, reconnecting
\* A request as Req builds it, with the fields a request had when it was issued.
Request(id, pid, attr, params, stale) ==
    [id |-> id, op |-> id[1], origin |-> id[2], pid |-> pid, attr |-> attr,
     value |-> <<>>, ack |-> FALSE, params |-> params, stale |-> stale]

\* The blinky client after its first session was set up without an error: the
\* adapter is open, the scan found the device, the connection is established,
\* the pipeline found service, characteristic and CCCD, and the input listener
\* is registered.
FirstSession ==
    LET service == Attr(BLE_UUID_SERVICE("Blinky"), 1, "service", 1)
        characteristic == Attr(LBS_UUID_NOTIFY_CHAR("Blinky"), 1, "characteristic", 1)
        descriptor == Attr(BLE_UUID_CCCD, 1, "descriptor", 1)
        ok == [err |-> FALSE, match |-> FALSE]
        found == [err |-> FALSE, match |-> TRUE]
    IN  /\ variant = "Blinky"
        /\ proc = "running"
        /\ exitCode = -1
        /\ reqs = (<<"open", "main", 1>> :>
                      Request(<<"open", "main", 1>>, 0, NoAttr, <<>>, FALSE))
                @@ (<<"startScan", "main", 1>> :>
                      Request(<<"startScan", "main", 1>>, 0, NoAttr, scanParameters, FALSE))
                @@ (<<"connect", "deviceDiscovered", 1>> :>
                      Request(<<"connect", "deviceDiscovered", 1>>, 0, NoAttr,
                              connectOptions("Blinky"), FALSE))
                @@ (<<"getServices", "discover", 1>> :>
                      Request(<<"getServices", "discover", 1>>, 1, DeviceAttr(1), <<>>, TRUE))
                @@ (<<"getCharacteristics", "discover", 1>> :>
                      Request(<<"getCharacteristics", "discover", 1>>, 1, service, <<>>, FALSE))
                @@ (<<"getDescriptors", "discover", 1>> :>
                      Request(<<"getDescriptors", "discover", 1>>, 1, characteristic, <<>>, FALSE))
        /\ pending = {}
        /\ answers = (<<"open", "main", 1>> :> ok)
                   @@ (<<"startScan", "main", 1>> :> ok)
                   @@ (<<"connect", "deviceDiscovered", 1>> :> ok)
                   @@ (<<"getServices", "discover", 1>> :> found)
                   @@ (<<"getCharacteristics", "discover", 1>> :> found)
                   @@ (<<"getDescriptors", "discover", 1>> :> found)
        /\ pipes = <<[conn |-> 1, stage |-> "done", error |-> "", service |-> service,
                      characteristic |-> characteristic, descriptor |-> descriptor]>>
        /\ listeners = <<[cccdDescriptor |-> descriptor, notificationsEnabled |-> <<0, 0>>]>>
        /\ notificationsEnabled = <<1, 0>>
        /\ scanning = FALSE
        /\ connecting = FALSE
        /\ link = 1
        /\ nconn = 1

\* The run starts in the first session; hist.events counts the events handled
\* from there on.
InitReconnect ==
    /\ FirstSession
    /\ hist = [events |-> 0, matched |-> 1, disconnected |-> 0, cpuRequests |-> 0,
               toggles |-> 0, sinceDiscovery |-> 0, quits |-> 0, opened |-> TRUE]

\* the steps of the blinky client once the adapter is open
NextReconnect ==
    \/ \E r \in pending, err \in BOOLEAN : StartScanCallback(r, err)
    \/ \E name \in AdvertisedNames : DeviceDiscovered(name)
    \/ \E r \in pending, err \in BOOLEAN : ConnectCallback(r, err)
    \/ DeviceConnected
    \/ \E r \in pending, resp \in Responses(ServiceUUIDs(variant)) :
          GetServicesCallback(r, resp)
    \/ \E r \in pending, resp \in Responses(CharUUIDs(variant)) :
          GetCharacteristicsCallback(r, resp)
    \/ \E r \in pending, resp \in Responses(DescriptorUUIDs) :
          GetDescriptorsCallback(r, resp)
    \/ \E r \in pending, err \in BOOLEAN : WriteCallback(r, err)
    \/ DeviceDisconnected
    \/ \E cp \in PeerParams : ConnParamUpdateRequest(cp)
    \/ \E chunk \in Chunks : Readable(chunk)
    \/ \E r \in pending, err \in BOOLEAN : CloseCallback(r, err)
    \/ ScanTimedOut

SpecReconnect == InitReconnect /\ [][NextReconnect]_vars

\* -------------------------------------------------------------- properties
Pipes == 1..Len(pipes)

\* the id of the request of pipeline p for operation op
PipeReq(op, p) ==
    <<op, IF op = "writeDescriptorValue" THEN "handleConnectedDevice" ELSE "discover", p>>

Answered(i) == i \in DOMAIN answers

\* the adapter answered request i with an error, or with a list without the target
Failed(i) == Answered(i) /\ (answers[i].err \/ ~answers[i].match)

DiscoveryCompleted(p) == pipes[p].stage \in {"writeDescriptorValue", "done"}

\* C1: in the UART client the discovery pipeline is started while the
\* connection-established event is handled: every connection that was
\* established has a pipeline (a getServices request) of its own.
C1_DiscoveryOnDeviceConnected ==
    variant = "UART" =>
        \A c \in 1..nconn :
            \E p \in Pipes :
                /\ pipes[p].conn = c
                /\ PipeReq("getServices", p) \in DOMAIN reqs

\* C2: in the UART client, whenever a writeDescriptorValue request is issued,
\* the pipeline started by the latest accepted connParamUpdateRequest has
\* completed its discovery (service, characteristic and descriptor).
C2_NoWriteBeforeRediscovery ==
    [][(variant = "UART" /\ \E i \in NewIds : reqs'[i].op = "writeDescriptorValue")
          => pipes'[Len(pipes')].stage \in {"writeDescriptorValue", "done"}]_vars

\* C3: the startScan requests are one for the opened adapter and one for each
\* deviceDisconnected event, all with the parameters of the initial scan; and
\* the callback of a deviceDisconnected handler's startScan, error or not,
\* leaves the process running and issues no request.
C3_ScanCounts ==
    /\ Cardinality(Issued("startScan", "deviceDisconnected")) = hist.disconnected
    /\ Cardinality(Issued("startScan", "main")) = (IF hist.opened THEN 1 ELSE 0)
    /\ \A i \in DOMAIN reqs :
          i[1] = "startScan" =>
              /\ i[2] \in {"main", "deviceDisconnected"}
              /\ reqs[i].params =
                    [active |-> TRUE, interval |-> 100, window |-> 50, timeout |-> 0]

C3_RescanCallbackStep ==
    \A i \in pending \ pending' :
        (i[1] = "startScan" /\ i[2] = "deviceDisconnected") =>
            /\ proc' = "running"
            /\ reqs' = reqs

C3_OneScanPerDisconnect == []C3_ScanCounts /\ [][C3_RescanCallbackStep]_vars

\* a rescan was answered with an error and the process runs on
C3_Witness ==
    \E i \in Issued("startScan", "deviceDisconnected") :
        /\ Answered(i)
        /\ answers[i].err
        /\ proc = "running"

\* C4: no getCharacteristics, getDescriptors or writeDescriptorValue request is
\* issued with an attribute of a connection that has ended.
C4_NoStaleAttribute ==
    \A i \in DOMAIN reqs :
        reqs[i].op \in {"getCharacteristics", "getDescriptors", "writeDescriptorValue"}
            => ~reqs[i].stale

\* C5: a pipeline whose getServices request was answered with an error or with
\* services none of which has the target UUID is rejected at the service
\* step, and no getCharacteristics request is issued for it.
C5_ServiceNotFound ==
    \A p \in Pipes :
        Failed(PipeReq("getServices", p)) =>
            /\ pipes[p].stage = "rejected"
            /\ pipes[p].error \in {"ServiceError", "ServiceNotFound"}
            /\ pipes[p].error = "ServiceNotFound" <=> ~answers[PipeReq("getServices", p)].err
            /\ PipeReq("getCharacteristics", p) \notin DOMAIN reqs

\* services were listed, none of them the target
C5_Witness ==
    \E p \in Pipes :
        /\ Answered(PipeReq("getServices", p))
        /\ ~answers[PipeReq("getServices", p)].err
        /\ ~answers[PipeReq("getServices", p)].match

\* C6: a pipeline whose getCharacteristics (resp. getDescriptors) request was
\* answered with an error or without a match is rejected at that step, issues
\* no later discovery step and no write, registers no input listener, has no
\* request pending again, and the process has exited with a non-zero status.
C6_DiscoveryFailureIsFatal ==
    \A p \in Pipes :
        /\ Failed(PipeReq("getCharacteristics", p)) =>
              /\ pipes[p].stage = "rejected"
              /\ pipes[p].error \in {"CharacteristicError", "CharacteristicNotFound"}
              /\ pipes[p].error = "CharacteristicNotFound"
                    <=> ~answers[PipeReq("getCharacteristics", p)].err
              /\ PipeReq("getDescriptors", p) \notin DOMAIN reqs
        /\ Failed(PipeReq("getDescriptors", p)) =>
              /\ pipes[p].stage = "rejected"
              /\ pipes[p].error \in {"DescriptorError", "DescriptorNotFound"}
              /\ pipes[p].error = "DescriptorNotFound"
                    <=> ~answers[PipeReq("getDescriptors", p)].err
        /\ pipes[p].stage = "rejected" =>
              /\ PipeReq("writeDescriptorValue", p) \notin DOMAIN reqs
              /\ \A i \in pending : reqs[i].pid # p
              /\ \A k \in 1..Len(listeners) : listeners[k].cccdDescriptor # pipes[p].descriptor
              /\ pipes[p].descriptor = NoAttr
              /\ proc = "exited"
              /\ exitCode # 0

\* the service was found and no characteristic matched
C6_Witness ==
    \E p \in Pipes :
        /\ Answered(PipeReq("getCharacteristics", p))
        /\ ~answers[PipeReq("getCharacteristics", p)].err
        /\ ~answers[PipeReq("getCharacteristics", p)].match
        /\ pipes[p].service.uuid = BLE_UUID_SERVICE(variant)

\* the write request of the k-th toggle intent
ToggleWrite(k) == reqs[<<"writeDescriptorValue", "toggle", k>>]

\* C7: every toggle intent issues one write request; the values of two
\* consecutive toggles are complementary, [1,0] and [0,0] in either order, and
\* after two toggles the listener's state is what it was before them.
C7_ToggleIsPureFlip ==
    /\ Issued("writeDescriptorValue", "toggle") =
          {<<"writeDescriptorValue", "toggle", k>> : k \in 1..hist.toggles}
    /\ \A k \in 1..hist.toggles :
          /\ ToggleWrite(k).value \in {<<0, 0>>, <<1, 0>>}
          /\ k > 1 => ToggleWrite(k).value # ToggleWrite(k - 1).value
          /\ k > 2 => ToggleWrite(k).value = ToggleWrite(k - 2).value
    /\ Len(listeners) > 0 =>
          listeners[1].notificationsEnabled =
              (IF hist.toggles % 2 = 0 THEN <<0, 0>> ELSE ToggleWrite(hist.toggles).value)

\* two toggle intents were handled
C7_Witness == hist.toggles >= 2 /\ Len(listeners) > 0

\* C8: in the UART client notificationsEnabled stays [1,0], and every write
\* issued when a discovery completes carries [1,0] and ack = false.
C8_ApplyDefaultIdempotent ==
    variant = "UART" =>
        /\ notificationsEnabled = <<1, 0>>
        /\ \A i \in Issued("writeDescriptorValue", "handleConnectedDevice") :
              /\ reqs[i].value = <<1, 0>>
              /\ reqs[i].ack = FALSE
              /\ reqs[i].attr = pipes[reqs[i].pid].descriptor

\* two discoveries completed and each issued its write
C8_Witness ==
    /\ variant = "UART"
    /\ \E p, q \in Pipes :
          /\ p # q
          /\ DiscoveryCompleted(p) /\ DiscoveryCompleted(q)
          /\ PipeReq("writeDescriptorValue", p) \in DOMAIN reqs
          /\ PipeReq("writeDescriptorValue", q) \in DOMAIN reqs

\* C9: in both clients every connParamUpdateRequest event is followed, in its
\* handler, by an updateConnectionParameters request.
C9_EveryRequestIsAnswered ==
    Cardinality(Issued("updateConnectionParameters", "connParamUpdateRequest"))
        = hist.cpuRequests

\* C10: the callback of an updateConnectionParameters request that reports an
\* error leaves the process running, starts no pipeline, issues no request and
\* changes nothing of the session.
C10_ErrorStep ==
    \A i \in pending \ pending' :
        (i[1] = "updateConnectionParameters" /\ answers'[i].err) =>
            /\ proc' = "running"
            /\ reqs' = reqs
            /\ pipes' = pipes
            /\ pending' = pending \ {i}
            /\ UNCHANGED <<listeners, notificationsEnabled, envVars>>

C10_UpdateErrorNonFatal == [][C10_ErrorStep]_vars

\* an updateConnectionParameters request was answered with an error
C10_Witness ==
    \E i \in Issued("updateConnectionParameters", "connParamUpdateRequest") :
        /\ Answered(i)
        /\ answers[i].err
        /\ proc = "running"

\* C11: a connect request is issued only in a step that handles, while
\* scanning, a deviceDiscovered event of the profile's device name, one request
\* for each such event; as long as no such event was handled nothing is
\* connected, and a running process that scans goes on scanning.
C11_ConnectCounts ==
    /\ Cardinality(Issued("connect", "deviceDiscovered")) = hist.matched
    /\ \A i \in DOMAIN reqs :
          i[1] = "connect" =>
              /\ i[2] = "deviceDiscovered"
              /\ reqs[i].params = connectOptions(variant)
    /\ hist.matched = 0 =>
          /\ ~connecting
          /\ link = 0
          /\ nconn = 0
          /\ pipes = <<>>

C11_ConnectStep ==
    /\ (\E i \in NewIds : i[1] = "connect") =>
          /\ proc = "running"
          /\ scanning
          /\ hist'.matched = hist.matched + 1
    /\ (scanning /\ hist'.matched = 0 /\ proc' = "running") => scanning'

C11_ConnectOnlyOnMatch == []C11_ConnectCounts /\ [][C11_ConnectStep]_vars

\* the scan is running and the one device of the profile's name was connected to
C11_Witness ==
    /\ scanning
    /\ hist.matched = 1
    /\ Cardinality(Issued("connect", "deviceDiscovered")) = 1

\* C12: at most one peripheral session: whenever a connect request is issued,
\* no other connect request is pending, no connection is being established
\* and no connection is established.
C12_ConnectStep ==
    (\E i \in NewIds : i[1] = "connect") =>
        /\ \A j \in pending : j[1] # "connect"
        /\ ~connecting
        /\ link = 0

C12_AtMostOneSession == [][C12_ConnectStep]_vars

\* C13: the UART client writes, when a discovery completes, the value that it
\* wrote before; in the blinky client the first toggle intent after a
\* completed discovery, that of a reconnection included, writes [1,0].
C13_WriteStep ==
    \A i \in NewIds :
        i[1] = "writeDescriptorValue" =>
            /\ i[2] = "handleConnectedDevice" =>
                  /\ reqs'[i].value = notificationsEnabled
                  /\ \A j \in Issued("writeDescriptorValue", "handleConnectedDevice") :
                        reqs[j].value = reqs'[i].value
            /\ (i[2] = "toggle" /\ hist.sinceDiscovery = 0) =>
                  reqs'[i].value = <<1, 0>>

C13_StateAcrossReconnections == [][C13_WriteStep]_vars

\* a request whose error the main chain or the connect chain catches
FatalRequest(i) == i[1] \in {"open", "connect"} \/ (i[1] = "startScan" /\ i[2] = "main")

\* C14: an error of the open request, of the initial startScan request or of a
\* connect request, and a scanTimedOut event, end the process with a non-zero
\* status in the step that handles them, with no request issued then or
\* later; open and the initial startScan are issued at most once, and a
\* startScan request exists only if the open request was answered without error.
C14_Fatal ==
    /\ \A i \in DOMAIN answers :
          (FatalRequest(i) /\ answers[i].err) =>
              /\ proc = "exited"
              /\ exitCode \in 1..255
    /\ proc = "exited" => exitCode \in 1..255
    /\ Cardinality(Issued("open", "main")) <= 1
    /\ Cardinality(Issued("startScan", "main")) <= 1
    /\ \A i \in DOMAIN reqs :
          i[1] = "startScan" =>
              /\ Answered(<<"open", "main", 1>>)
              /\ ~answers[<<"open", "main", 1>>].err

C14_FatalStep ==
    /\ proc = "exited" => reqs' = reqs
    /\ \A i \in pending \ pending' :
          (FatalRequest(i) /\ answers'[i].err) =>
              /\ proc' = "exited"
              /\ reqs' = reqs
    /\ (proc = "running" /\ proc' = "exited" /\ answers' = answers) =>
          /\ scanning
          /\ exitCode' = 1
          /\ reqs' = reqs

C14_FatalNoRetry == []C14_Fatal /\ [][C14_FatalStep]_vars

\* the open request was answered with an error
C14_Witness ==
    /\ Answered(<<"open", "main", 1>>)
    /\ answers[<<"open", "main", 1>>].err
    /\ proc = "exited"
    /\ exitCode = 255

\* request i was answered without an error by a list that holds the target
Succeeded(i) == Answered(i) /\ ~answers[i].err /\ answers[i].match

\* C15: a getCharacteristics request is for the service that the answered
\* getServices request of its pipeline returned, a getDescriptors request for
\* the characteristic that the answered getCharacteristics request returned,
\* and a writeDescriptorValue request for the CCCD that an answered
\* getDescriptors request returned; a pipeline has at most one request
\* pending, and a step is requested in the step that completes the one before.
C15_Order ==
    /\ \A i \in DOMAIN reqs :
          /\ reqs[i].op = "getCharacteristics" =>
                LET g == PipeReq("getServices", reqs[i].pid)
                IN  /\ Succeeded(g)
                    /\ reqs[i].attr = pipes[reqs[i].pid].service
                    /\ reqs[i].attr = Attr(BLE_UUID_SERVICE(variant),
                                           reqs[g].attr.conn, "service", 1)
          /\ reqs[i].op = "getDescriptors" =>
                LET g == PipeReq("getCharacteristics", reqs[i].pid)
                IN  /\ Succeeded(g)
                    /\ reqs[i].attr = pipes[reqs[i].pid].characteristic
                    /\ reqs[i].attr = Attr(LBS_UUID_NOTIFY_CHAR(variant),
                                           reqs[g].attr.conn, "characteristic", 1)
          /\ reqs[i].op = "writeDescriptorValue" =>
                \E p \in Pipes :
                    LET g == PipeReq("getDescriptors", p)
                    IN  /\ reqs[i].pid # 0 => p = reqs[i].pid
                        /\ Succeeded(g)
                        /\ reqs[i].attr = pipes[p].descriptor
                        /\ reqs[i].attr = Attr(BLE_UUID_CCCD, reqs[g].attr.conn,
                                               "descriptor", 1)
    /\ \A p \in Pipes : Cardinality({i \in pending : reqs[i].pid = p}) <= 1

C15_OrderStep ==
    \A i \in NewIds :
        /\ i[1] = "getCharacteristics" =>
              PipeReq("getServices", i[3]) \in pending \ pending'
        /\ i[1] = "getDescriptors" =>
              PipeReq("getCharacteristics", i[3]) \in pending \ pending'
        /\ (i[1] = "writeDescriptorValue" /\ i[2] = "handleConnectedDevice") =>
              PipeReq("getDescriptors", i[3]) \in pending \ pending'

C15_StrictStepOrder == []C15_Order /\ [][C15_OrderStep]_vars

\* a write was issued to the CCCD of a completed discovery
C15_Witness ==
    \E i \in DOMAIN reqs :
        /\ reqs[i].op = "writeDescriptorValue"
        /\ \E p \in Pipes : DiscoveryCompleted(p) /\ reqs[i].attr = pipes[p].descriptor

\* C16: every quit intent that a listener handles issues one close request,
\* and the step that handles the callback of a close request ends the process
\* with a non-zero status, whether the callback reports an error or not.
C16_QuitCloses ==
    /\ Cardinality(Issued("close", "quit")) = hist.quits
    /\ \A i \in Issued("close", "quit") :
          Answered(i) => (proc = "exited" /\ exitCode = 1)

C16_CloseStep ==
    /\ hist'.quits = hist.quits + 1 =>
          \E i \in NewIds : reqs'[i].op = "close" /\ NewIds = {i}
    /\ \A i \in pending \ pending' :
          i[1] = "close" => (proc' = "exited" /\ exitCode' = 1)

C16_QuitTerminates == []C16_QuitCloses /\ [][C16_CloseStep]_vars

\* the close request of a quit intent was answered with an error
C16_Witness ==
    \E i \in Issued("close", "quit") :
        /\ Answered(i)
        /\ answers[i].err
        /\ proc = "exited"

NotificationStates == {<<0, 0>>, <<1, 0>>}

\* C17: the UART client's notificationsEnabled and the array of every input
\* listener are [0,0] or [1,0] and change only in a step that handles a toggle
\* intent; every writeDescriptorValue request has ack = false and the value
\* that the array it was issued from holds after the step, so that an array
\* holds the value of the last write issued from it.
C17_States ==
    /\ notificationsEnabled \in NotificationStates
    /\ \A k \in 1..Len(listeners) :
          /\ listeners[k].notificationsEnabled \in NotificationStates
          /\ k > 1 => listeners[k].notificationsEnabled = <<0, 0>>
    /\ \A i \in DOMAIN reqs :
          reqs[i].op = "writeDescriptorValue" =>
              /\ reqs[i].ack = FALSE
              /\ reqs[i].value \in NotificationStates
              /\ i[2] = "handleConnectedDevice" => reqs[i].value = notificationsEnabled
    /\ hist.toggles > 0 =>
          listeners[1].notificationsEnabled = ToggleWrite(hist.toggles).value

C17_WriteStep ==
    /\ (\/ notificationsEnabled' # notificationsEnabled
        \/ \E k \in 1..Len(listeners) :
              listeners'[k].notificationsEnabled # listeners[k].notificationsEnabled)
          => hist'.toggles = hist.toggles + 1
    /\ \A i \in NewIds :
          i[1] = "writeDescriptorValue" =>
              /\ reqs'[i].ack = FALSE
              /\ i[2] = "handleConnectedDevice" =>
                    reqs'[i].value = notificationsEnabled'
              /\ i[2] = "toggle" =>
                    \E k \in 1..Len(listeners) :
                        /\ listeners'[k].notificationsEnabled
                              # listeners[k].notificationsEnabled
                        /\ reqs'[i].value = listeners'[k].notificationsEnabled
                        /\ reqs'[i].attr = listeners[k].cccdDescriptor

C17_StateIsLastWrite == []C17_States /\ [][C17_WriteStep]_vars

\* a toggle intent enabled the notifications and its write was issued
C17_Witness ==
    /\ hist.toggles = 1
    /\ ToggleWrite(1).value = <<1, 0>>
    /\ listeners[1].notificationsEnabled = <<1, 0>>

\* C18: a writeDescriptorValue request answered with an error, whether issued
\* by a toggle intent or when a discovery completed, ends the process with
\* status 1 in the step that handles the callback, and no request is issued
\* in that step or after it.
C18_WriteFailed ==
    \A i \in DOMAIN answers :
        (i[1] = "writeDescriptorValue" /\ answers[i].err) =>
            /\ i[2] \in {"toggle", "handleConnectedDevice"}
            /\ proc = "exited"
            /\ exitCode = 1

C18_WriteFailedStep ==
    /\ \A i \in pending \ pending' :
          (i[1] = "writeDescriptorValue" /\ answers'[i].err) =>
              /\ proc' = "exited"
              /\ reqs' = reqs
              /\ pipes' = pipes
    /\ (proc = "exited" /\ \E i \in DOMAIN answers :
                               i[1] = "writeDescriptorValue" /\ answers[i].err)
          => (reqs' = reqs /\ pending' = pending)

C18_WriteFailureIsFatal == []C18_WriteFailed /\ [][C18_WriteFailedStep]_vars

\* the write of a toggle intent was answered with an error
C18_Witness ==
    \E i \in Issued("writeDescriptorValue", "toggle") :
        /\ Answered(i)
        /\ answers[i].err

LegacyNames == {"min_conn_interval", "max_conn_interval", "slave_latency",
                "conn_sup_timeout"}
CurrentNames == {"minConnectionInterval", "maxConnectionInterval", "slaveLatency",
                 "connectionSupervisionTimeout"}

\* C19: the connection parameters of every connect request hold the fields of
\* the legacy names and the fields of the current names, with equal values.
C19_BothNamings ==
    \A i \in DOMAIN reqs :
        i[1] = "connect" =>
            LET cp == reqs[i].params.connParams
            IN  /\ LegacyNames \cup CurrentNames \subseteq DOMAIN cp
                /\ cp.min_conn_interval = cp.minConnectionInterval
                /\ cp.max_conn_interval = cp.maxConnectionInterval
                /\ cp.slave_latency = cp.slaveLatency
                /\ cp.conn_sup_timeout = cp.connectionSupervisionTimeout

\* C20: in the blinky client a step that handles a toggle intent issues
\* exactly one request, a writeDescriptorValue to the CCCD that the most
\* recent completed discovery found.
C20_ToggleStep ==
    (variant = "Blinky" /\ hist'.toggles = hist.toggles + 1) =>
        \E i \in NewIds :
            /\ NewIds = {i}
            /\ reqs'[i].op = "writeDescriptorValue"
            /\ reqs'[i].attr = listeners[Len(listeners)].cccdDescriptor

C20_OneWriteToLatestCCCD == [][C20_ToggleStep]_vars

\* C21: at most one discovery pipeline is in flight: whenever a getServices
\* request starts a pipeline, no request of an earlier pipeline (getServices,
\* getCharacteristics, getDescriptors or its write) is pending.
C21_PipelineStep ==
    (\E i \in NewIds : i[1] = "getServices") =>
        \A j \in pending : reqs[j].pid = 0

C21_OnePipelineInFlight == [][C21_PipelineStep]_vars

\* C22: while the close request of a quit intent awaits its callback no
\* request is issued: no write, no startScan, no connect, no second close.
C22_ClosingStep ==
    (\E j \in pending : j[1] = "close") => NewIds = {}

C22_NoRequestAfterClose == [][C22_ClosingStep]_vars

====
